---- MODULE Spec2Model ----
(***************************************************************************)
(* The apply_ufunc calls of the two tutorial notebooks                     *)
(*   src/advanced/apply_ufunc/dask_apply_ufunc.ipynb      (dask notebook)  *)
(*   src/advanced/apply_ufunc/complex-output-numpy.ipynb  (numpy notebook) *)
(* as a state machine.  One notebook cell is one apply_ufunc call; a call  *)
(* on lazy data may be followed by compute(), whose per-block tasks the    *)
(* scheduler runs in any order.  The behaviour of apply_ufunc is the one   *)
(* the notebooks state: the docstrings they quote, the error messages they *)
(* quote, the cells tagged raises-exception and the "When executed" lists. *)
(* The air_temperature dataset is replaced by a small array of even        *)
(* integers, so that the trapezoid rule and midpoint interpolation are     *)
(* exact in integer arithmetic.                                            *)
(***************************************************************************)
EXTENDS Integers, Sequences, FiniteSets, Bags, TLC

VARIABLES seed, pc, call, err, calls, pending, outBlocks, result, others

vars == <<seed, pc, call, err, calls, pending, outBlocks, result, others>>

(***************************************************************************)
(* Bounds of the model: the scaled-down shape of ds.air, the number of     *)
(* blocks a modelled input may have.                                       *)
(***************************************************************************)
NTime == 3
NLat == 2
NLon == 2
MaxBlocks == 4

(***************************************************************************)
(* Numbers the notebooks state.                                            *)
(***************************************************************************)
AirTime == 2920
AirLat == 25
AirLon == 53
TimeChunk == 100
AirNumBlocks == 30
NewDimSize == 1
DummySize == 1

(***************************************************************************)
(* Arithmetic and sequences                                                *)
(***************************************************************************)
Min(a, b) == IF a <= b THEN a ELSE b

\* the number of chunks of size c that cover n points: the last chunk may
\* be smaller (2920 points in chunks of 100 are 29 full chunks and one of 20)
CeilDivFloorBug(n, c) == n \div c

CeilDiv(n, c) == (n + c - 1) \div c

Front(s) == SubSeq(s, 1, Len(s) - 1)

Last(s) == s[Len(s)]

Pos(s, x) == CHOOSE i \in 1..Len(s) : s[i] = x

Range(s) == {s[i] : i \in 1..Len(s)}

RECURSIVE Prod(_)
Prod(s) == IF s = <<>> THEN 1 ELSE Prod(Front(s)) * Last(s)

(***************************************************************************)
(* n-dimensional arrays: a shape and a value per index tuple               *)
(***************************************************************************)
RECURSIVE Idx(_)
Idx(shape) ==
  IF shape = <<>> THEN {<<>>}
  ELSE {Append(p, k) : p \in Idx(Front(shape)), k \in 1..Last(shape)}

\* numpy.transpose: axis i of the result is axis perm[i] of arr
Transpose(arr, perm) ==
  LET n == Len(perm)
      shp == [i \in 1..n |-> arr.shape[perm[i]]]
  IN  [shape |-> shp,
       data |-> [ix \in Idx(shp) |->
                   arr.data[[j \in 1..n |-> ix[Pos(perm, j)]]]]]

\* np.ones(shape)
Ones(shape) == [shape |-> shape, data |-> [ix \in Idx(shape) |-> 1]]

(***************************************************************************)
(* The data: ds = open_dataset("air_temperature"), variable air with       *)
(* dimensions (time, lat, lon); every dimension has a coordinate.          *)
(***************************************************************************)
AirDims == <<"time", "lat", "lon">>

\* two stand-ins for the air_temperature data
Seeds == {0, 1}

AirShape == <<NTime, NLat, NLon>>

AirValue(s, ix) ==
  2 * ((ix[1] * ix[1] * (s + 1) + 3 * ix[2] + 5 * ix[3] + ix[1] * ix[3]) % 11)

AirData(s) ==
  [shape |-> AirShape, data |-> [ix \in Idx(AirShape) |-> AirValue(s, ix)]]

\* the lat coordinate, ascending (np.interp needs it so)
lat == [shape |-> <<NLat>>, data |-> [ix \in Idx(<<NLat>>) |-> 2 * (ix[1] - 1)]]

\* newlat = np.linspace(first lat, last lat, n): a denser grid over the same
\* range; here every midpoint is added
NewLatLen == 2 * NLat - 1

newlat ==
  [shape |-> <<NewLatLen>>, data |-> [ix \in Idx(<<NewLatLen>>) |-> ix[1] - 1]]

\* air of the numpy notebook: the 1D subset isel(time=0, lon=0), in memory
Air1D(s) ==
  [shape |-> <<NLat>>, data |-> [ix \in Idx(<<NLat>>) |-> AirValue(s, <<1, ix[1], 1>>)]]

\* air2d of the numpy notebook: isel(time=0), dimensions (lat, lon), in memory
Air2D(s) ==
  [shape |-> <<NLat, NLon>>,
   data |-> [ix \in Idx(<<NLat, NLon>>) |-> AirValue(s, <<1, ix[1], ix[2]>>)]]

(***************************************************************************)
(* The applied functions, on numpy arrays                                  *)
(***************************************************************************)
\* squared_error(x, y) = (x - y) ** 2, element by element
squared_error(x, y) ==
  [shape |-> x.shape,
   data |-> [ix \in Idx(x.shape) |-> (x.data[ix] - y) * (x.data[ix] - y)]]

RECURSIVE TrapzSum(_, _, _)
TrapzSum(a, ix, k) ==
  IF k < 1 THEN 0
  ELSE TrapzSum(a, ix, k - 1) + a.data[Append(ix, k)] + a.data[Append(ix, k + 1)]

\* scipy.integrate.trapz(array, axis=-1): the trapezoid rule along the last
\* axis, which the result no longer has
trapz(a) ==
  LET shp == Front(a.shape)
  IN  [shape |-> shp,
       data |-> [ix \in Idx(shp) |-> TrapzSum(a, ix, Last(a.shape) - 1) \div 2]]

RECURSIVE SumLast(_, _, _)
SumLast(a, ix, k) ==
  IF k < 1 THEN 0 ELSE SumLast(a, ix, k - 1) + a.data[Append(ix, k)]

\* dask.array.mean(array, axis=-1): the mean along the last axis, which the
\* result no longer has; a mean is kept as the exact fraction <<sum, count>>
mean(a) ==
  LET shp == Front(a.shape)
  IN  [shape |-> shp,
       data |-> [ix \in Idx(shp) |-> <<SumLast(a, ix, Last(a.shape)), Last(a.shape)>>]]

RECURSIVE MinLast(_, _, _)
MinLast(a, ix, k) ==
  IF k = 1 THEN a.data[Append(ix, 1)]
  ELSE Min(MinLast(a, ix, k - 1), a.data[Append(ix, k)])

RECURSIVE MaxLast(_, _, _)
MaxLast(a, ix, k) ==
  IF k = 1 THEN a.data[Append(ix, 1)]
  ELSE LET m == MaxLast(a, ix, k - 1)
           v == a.data[Append(ix, k)]
       IN  IF m >= v THEN m ELSE v

\* minmax(array): the two arrays array.min(axis=-1) and array.max(axis=-1)
minmax(a) ==
  LET shp == Front(a.shape)
  IN  <<[shape |-> shp,
         data |-> [ix \in Idx(shp) |-> MinLast(a, ix, Last(a.shape))]],
        [shape |-> shp,
         data |-> [ix \in Idx(shp) |-> MaxLast(a, ix, Last(a.shape))]]>>

\* np.expand_dims(array, axis=-1): a new last axis of size 1
add_new_dim(a) ==
  LET shp == Append(a.shape, NewDimSize)
  IN  [shape |-> shp, data |-> [ix \in Idx(shp) |-> a.data[Front(ix)]]]

\* the add_new_dim the dask notebook shows in its text, before the cell that
\* defines the one it applies: np.expand_dims(array, axis=0), a new first
\* axis of size 1
add_new_dim_axis0(a) ==
  LET shp == <<NewDimSize>> \o a.shape
  IN  [shape |-> shp, data |-> [ix \in Idx(shp) |-> a.data[Tail(ix)]]]

\* np.interp at one point x: linear between the two neighbours of x in xp,
\* the end values outside the range of xp
InterpAt(x, xp, fp) ==
  LET n == xp.shape[1]
  IN  IF x <= xp.data[<<1>>] THEN fp.data[<<1>>]
      ELSE IF x >= xp.data[<<n>>] THEN fp.data[<<n>>]
      ELSE LET i == CHOOSE j \in 1..(n - 1) :
                      xp.data[<<j>>] <= x /\ x < xp.data[<<j + 1>>]
               x0 == xp.data[<<i>>]
               x1 == xp.data[<<i + 1>>]
               y0 == fp.data[<<i>>]
               y1 == fp.data[<<i + 1>>]
           IN  y0 + ((y1 - y0) * (x - x0)) \div (x1 - x0)

\* np.interp(x, xp, fp) is one-dimensional: it raises on any other input
InterpAccepts(x, xp, fp) ==
  Len(x.shape) = 1 /\ Len(xp.shape) = 1 /\ Len(fp.shape) = 1

interp(x, xp, fp) ==
  [shape |-> x.shape,
   data |-> [ix \in Idx(x.shape) |-> InterpAt(x.data[ix], xp, fp)]]

Funcs == {"squared_error", "wrapper", "trapz", "integrate_wrapper",
          "add_new_dim", "interp", "mean", "minmax"}

\* whether func raises on array a (the other arguments as the notebooks
\* pass them: y = 1; x = newlat and xp = lat)
FuncRaises(func, a, x, xp) ==
  CASE func = "interp" -> ~InterpAccepts(x, xp, a)
    [] func \in {"trapz", "integrate_wrapper"} -> a.shape = <<>>
    [] OTHER -> FALSE

\* func(a): wrapper prints and returns squared_error(x, y); integrate_wrapper
\* prints and returns trapz(array, axis=-1)
CallFunc(func, a, x, xp) ==
  CASE func \in {"squared_error", "wrapper"} -> squared_error(a, 1)
    [] func \in {"trapz", "integrate_wrapper"} -> trapz(a)
    [] func = "add_new_dim" -> add_new_dim(a)
    [] func = "interp" -> interp(x, xp, a)
    [] func = "mean" -> mean(a)

(***************************************************************************)
(* Chunked (dask) arrays                                                   *)
(***************************************************************************)
\* the chunk size .chunk({dim: c}) gives a dimension of n points; -1 is one
\* chunk for the whole dimension
NormChunk(c, n) == IF c = -1 THEN n ELSE c

\* data.numblocks: the number of chunks along every axis
NumBlocksPerAxis(shape, chunks) ==
  [i \in 1..Len(shape) |-> CeilDiv(shape[i], NormChunk(chunks[i], shape[i]))]

\* the number of blocks of the array
NumBlocks(shape, chunks) == Prod(NumBlocksPerAxis(shape, chunks))

\* the chunkings of ds.air the model tries: along every dimension a chunk
\* size smaller than the dimension, or -1
ChunkSpecs ==
  {cs \in [1..3 -> {-1} \cup 1..(NTime + NLat + NLon)] :
     /\ \A i \in 1..3 : cs[i] < AirShape[i]
     /\ NumBlocks(AirShape, cs) <= MaxBlocks}

(***************************************************************************)
(* The calls xr.apply_ufunc(func, ..., **options) of the notebooks, over   *)
(* the inputs and options they vary.  input "air" is the in-memory 1D      *)
(* array of the numpy notebook, "ds.air" the chunked 3D array of the dask  *)
(* notebook; the other arguments follow from func (1; newlat and lat).     *)
(***************************************************************************)
Modes == {"forbidden", "allowed", "parallelized"}

Defaults ==
  [input_core_dims |-> <<>>, output_core_dims |-> <<>>, outputs |-> 1,
   exclude_dims |-> {},
   output_sizes |-> {}, output_dtypes |-> FALSE, allow_rechunk |-> FALSE,
   meta |-> FALSE, vectorize |-> FALSE, dask |-> "forbidden", chunks |-> <<>>]

Inputs == {[input |-> "air", chunks |-> <<>>]}
            \cup {[input |-> "ds.air", chunks |-> cs] : cs \in ChunkSpecs}

DaskInputs == {i \in Inputs : i.input = "ds.air"}

\* a call: the function, the input, the keywords given and, for every
\* option, the value given or else its default.  output_core_dims has one
\* entry per array the function returns: a call holds the number of entries
\* (outputs, 1 by default) and the core dimensions of an entry
\* (output_core_dims), which every entry of one call shares.
With(func, in, opts) ==
  [f \in {"func", "input", "given"} \cup DOMAIN Defaults |->
     CASE f = "func" -> func
       [] f = "input" -> in.input
       [] f = "given" -> DOMAIN opts \ {"outputs"}
       [] f = "chunks" -> in.chunks
       [] f \in DOMAIN opts -> opts[f]
       [] OTHER -> Defaults[f]]

\* no keyword argument at all
NoOptions == <<>>

SquaredErrorCalls ==
  {With(f, in, NoOptions) : f \in {"squared_error", "wrapper"}, in \in Inputs}
  \cup
  {With(f, in, [dask |-> d]) :
     f \in {"squared_error", "wrapper"}, in \in Inputs, d \in Modes}

TrapzCalls ==
  {With(f, in, [input_core_dims |-> <<cd>>]) :
     f \in {"trapz", "integrate_wrapper"}, in \in DaskInputs,
     cd \in {"lon", "time"}}
  \cup
  {With(f, in, [dask |-> "parallelized", input_core_dims |-> <<cd>>,
                allow_rechunk |-> r, meta |-> m]) :
     f \in {"trapz", "integrate_wrapper"}, in \in DaskInputs,
     cd \in {"lon", "time"}, r \in BOOLEAN, m \in BOOLEAN}

\* time_mean(ds.air), and the same call with another dimension as the core
\* dimension
\* minmax on air2d and on air3d, with output_core_dims=[[], []]
MinmaxCalls ==
  {With("minmax", [input |-> in, chunks |-> <<>>],
        [input_core_dims |-> <<"lat">>, output_core_dims |-> <<>>,
         outputs |-> 2]) :
     in \in {"air2d", "air3d"}}

MeanCalls ==
  {With("mean", in, [input_core_dims |-> <<cd>>, dask |-> "allowed"]) :
     in \in DaskInputs, cd \in Range(AirDims)}

AddNewDimCalls ==
  {With("add_new_dim", in, [output_core_dims |-> <<"newdim">>]) : in \in Inputs}
  \cup
  {With("add_new_dim", in, [dask |-> "parallelized",
                            output_core_dims |-> <<"newdim">>]) :
     in \in DaskInputs}
  \cup
  {With("add_new_dim", in, [dask |-> "parallelized",
                            output_core_dims |-> <<"newdim">>,
                            output_sizes |-> {<<"newdim", NewDimSize>>}]) :
     in \in DaskInputs}

InterpNumpyCalls ==
  {With("interp", [input |-> "air", chunks |-> <<>>],
        [input_core_dims |-> <<"lat">>, output_core_dims |-> <<od>>]) :
     od \in {"lat", "lat_interp"}}
  \cup
  {With("interp", [input |-> "air", chunks |-> <<>>],
        [input_core_dims |-> <<"lat">>, output_core_dims |-> <<od>>,
         exclude_dims |-> {"lat"}]) :
     od \in {"lat", "lat_interp"}}

InterpDaskCalls ==
  {With("interp", in,
        [input_core_dims |-> <<"lat">>, output_core_dims |-> <<"lat">>,
         exclude_dims |-> {"lat"}]) :
     in \in DaskInputs}
  \cup
  {With("interp", in,
        [dask |-> "parallelized", input_core_dims |-> <<"lat">>,
         output_core_dims |-> <<"lat">>, exclude_dims |-> {"lat"},
         output_sizes |-> {<<"lat", NewLatLen>>}]) :
     in \in DaskInputs}
  \cup
  {With("interp", in,
        [dask |-> "parallelized", input_core_dims |-> <<"lat">>,
         output_core_dims |-> <<"lat">>, exclude_dims |-> {"lat"},
         output_sizes |-> {<<"lat", NewLatLen>>}, output_dtypes |-> TRUE]) :
     in \in DaskInputs}

\* interped: the np.interp call with output_dtypes and vectorize=True
VectorizedCalls ==
  {With("interp", in,
        [dask |-> "parallelized", input_core_dims |-> <<"lat">>,
         output_core_dims |-> <<"lat">>, exclude_dims |-> {"lat"},
         output_sizes |-> {<<"lat", NewLatLen>>}, output_dtypes |-> TRUE,
         vectorize |-> TRUE]) :
     in \in DaskInputs}

Calls ==
  SquaredErrorCalls \cup TrapzCalls \cup MeanCalls \cup MinmaxCalls
    \cup AddNewDimCalls
    \cup InterpNumpyCalls \cup InterpDaskCalls \cup VectorizedCalls

NoCall == With("none", [input |-> "none", chunks |-> <<>>], NoOptions)

(***************************************************************************)
(* What apply_ufunc derives from a call                                    *)
(***************************************************************************)
IsDask(c) == c.input = "ds.air"

InputDims(c) ==
  CASE c.input = "air" -> <<"lat">>
    [] c.input = "air2d" -> <<"lat", "lon">>
    [] OTHER -> AirDims

InputArray(c, s) ==
  CASE c.input = "air" -> Air1D(s)
    [] c.input = "air2d" -> Air2D(s)
    [] OTHER -> AirData(s)

InputShape(c) ==
  CASE c.input = "air" -> <<NLat>>
    [] c.input = "air2d" -> <<NLat, NLon>>
    [] OTHER -> AirShape

InputSize(c, d) == InputShape(c)[Pos(InputDims(c), d)]

\* the built-in ds.air.mean(dim): the mean over the axis where dim sits; the
\* result keeps the other dimensions, in their order, and their coordinates
DataArrayMean(s, dim) ==
  LET ax == Pos(AirDims, dim)
      keep == SelectSeq(AirDims, LAMBDA d : d # dim)
      shp == [i \in 1..Len(keep) |-> AirShape[Pos(AirDims, keep[i])]]
      at(ix, k) == [i \in 1..Len(AirDims) |->
                     IF i < ax THEN ix[i] ELSE IF i = ax THEN k ELSE ix[i - 1]]
      RECURSIVE sum(_, _)
      sum(ix, k) == IF k < 1 THEN 0
                    ELSE sum(ix, k - 1) + AirData(s).data[at(ix, k)]
  IN  [dims |-> keep, sizes |-> shp, coords |-> Range(keep), lazy |-> FALSE,
       data |-> [ix \in Idx(shp) |-> <<sum(ix, AirShape[ax]), AirShape[ax]>>]]

\* the dimensions the function is looped (broadcast) over
LoopDims(c) ==
  SelectSeq(InputDims(c), LAMBDA d : d \notin Range(c.input_core_dims))

\* "core dimensions are moved to the end": the array handed to func has the
\* loop dimensions first and the input core dimensions last
MovedDimsKeepOrder(c) == InputDims(c)

MovedDims(c) == LoopDims(c) \o c.input_core_dims

MovePerm(c) ==
  [i \in 1..Len(MovedDims(c)) |-> Pos(InputDims(c), MovedDims(c)[i])]

Moved(c, s) == Transpose(InputArray(c, s), MovePerm(c))

MovedShape(c) == [i \in 1..Len(MovePerm(c)) |-> InputShape(c)[MovePerm(c)[i]]]

\* the chunk size along every axis of the moved array
MovedChunks(c) ==
  [i \in 1..Len(MovePerm(c)) |->
     NormChunk(c.chunks[MovePerm(c)[i]], MovedShape(c)[i])]

\* input core dimensions that consist of more than one chunk
ChunkedCoreDims(c) ==
  {d \in Range(c.input_core_dims) :
     NumBlocksPerAxis(InputShape(c), c.chunks)[Pos(InputDims(c), d)] > 1}

\* the chunks apply_gufunc works on: with allow_rechunk=True a core
\* dimension is rechunked into a single chunk
GufuncChunks(c) ==
  [i \in 1..Len(MovedDims(c)) |->
     IF i > Len(LoopDims(c)) THEN MovedShape(c)[i] ELSE MovedChunks(c)[i]]

\* the number of arrays func is taken to return: one per entry of
\* output_core_dims, one by default
NumOutputsOne(c) == 1

NumOutputs(c) == c.outputs

\* the 1D vector along the last (core) axis of a at the point ix of the
\* other axes
Vector(a, ix) ==
  [shape |-> <<Last(a.shape)>>,
   data |-> [k \in Idx(<<Last(a.shape)>>) |-> a.data[ix \o k]]]

\* numpy.vectorize: loop over the loop dimensions of a, pass the 1D vector
\* along the core dimension to func, concatenate the 1D results into one
\* array
VectorizedFirstPoint(c, a) ==
  LET loop == Front(a.shape)
      first == [i \in 1..Len(loop) |-> 1]
      out == CallFunc(c.func, Vector(a, first), newlat, lat)
      shp == loop \o out.shape
  IN  [shape |-> shp,
       data |-> [ix \in Idx(shp) |-> out.data[<<Last(ix)>>]]]

Vectorized(c, a) ==
  LET loop == Front(a.shape)
      out(ix) == CallFunc(c.func, Vector(a, ix), newlat, lat)
      shp == loop \o out([i \in 1..Len(loop) |-> 1]).shape
  IN  [shape |-> shp,
       data |-> [ix \in Idx(shp) |-> out(Front(ix)).data[<<Last(ix)>>]]]

\* the function handed on by apply_ufunc, applied to array a: func, or with
\* vectorize=True the vectorized func
Apply(c, a) ==
  IF c.vectorize THEN Vectorized(c, a) ELSE CallFunc(c.func, a, newlat, lat)

Raises(c, a) ==
  IF c.vectorize
  THEN \E ix \in Idx(Front(a.shape)) : FuncRaises(c.func, Vector(a, ix), newlat, lat)
  ELSE FuncRaises(c.func, a, newlat, lat)

\* output_sizes[d], when given
HasOutputSize(c, d) == \E p \in c.output_sizes : p[1] = d

OutputSize(c, d) == (CHOOSE p \in c.output_sizes : p[1] = d)[2]

\* an output core dimension that no input core dimension provides
NewOutputDims(c) ==
  {d \in Range(c.output_core_dims) : d \notin Range(c.input_core_dims)}

\* the dimensions of the result: the loop dimensions, then the output core
\* dimensions as the last dimensions, in the order given
OutDimsCoreFirst(c) == c.output_core_dims \o LoopDims(c)

OutDims(c) == LoopDims(c) \o c.output_core_dims

\* the coordinates of the result: those of the input along the dimensions
\* kept; input coordinates along excluded dimensions are dropped
OutCoordsKeepExcluded(c) ==
  {d \in Range(OutDims(c)) : d \in Range(InputDims(c))}

OutCoords(c) ==
  {d \in Range(OutDims(c)) : d \in Range(InputDims(c)) /\ d \notin c.exclude_dims}

\* the sizes of a lazy result: declared in output_sizes, else the input's
LazySizes(c) ==
  [i \in 1..Len(OutDims(c)) |->
     LET d == OutDims(c)[i]
     IN  IF HasOutputSize(c, d) THEN OutputSize(c, d) ELSE InputSize(c, d)]

\* dask="forbidden" (the default): raise an error if a dask array is
\* encountered
ForbiddenIgnored(c) == FALSE

Forbidden(c) == IsDask(c) /\ c.dask = "forbidden"

\* dask="parallelized": a core dimension must not consist of multiple
\* chunks, unless allow_rechunk=True is passed in dask_gufunc_kwargs
CoreDimChunkedUnchecked(c) == FALSE

CoreDimChunked(c) == ChunkedCoreDims(c) # {} /\ ~c.allow_rechunk

\* dask="parallelized": the size of a new dimension must be provided in
\* dask_gufunc_kwargs with the key output_sizes
MissingOutputSizesIgnoresKwargs(c) == NewOutputDims(c) # {}

MissingOutputSizes(c) == \E d \in NewOutputDims(c) : ~HasOutputSize(c, d)

\* the errors apply_ufunc raises for a parallelized call before it calls
\* dask.array.apply_gufunc
Validation(c) ==
  {e \in {"core_dim_chunked", "missing_output_sizes"} :
     \/ e = "core_dim_chunked" /\ CoreDimChunked(c)
     \/ e = "missing_output_sizes" /\ MissingOutputSizes(c)}

\* apply_gufunc must know shape and dtype of the result: they are described
\* by keyword arguments (output_dtypes, meta) or inferred from dummy inputs
NeedsDummyAlways(c) == TRUE

NeedsDummy(c) == ~c.output_dtypes /\ ~c.meta

\* the dummy input: a numpy array of ones with size 1 along every dimension
DummyInputWholeShape(c) == Ones(InputShape(c))

DummyInput(c) == Ones([i \in 1..Len(InputDims(c)) |-> DummySize])

DummyRaises(c) ==
  FuncRaises(c.func, DummyInput(c), Ones(<<DummySize>>), Ones(<<DummySize>>))

\* only dimensions in exclude_dims are allowed to change size between the
\* input and the output
SizeChangedUnchecked(c, shape) == FALSE

SizeChanged(c, shape) ==
  \E k \in 1..Len(c.output_core_dims) :
    LET d == c.output_core_dims[k]
    IN  /\ d \in Range(InputDims(c))
        /\ d \notin c.exclude_dims
        /\ shape[Len(LoopDims(c)) + k] # InputSize(c, d)

(***************************************************************************)
(* Blocks                                                                  *)
(***************************************************************************)
\* the block indices of the array apply_gufunc works on
BlockIds(c) == Idx(NumBlocksPerAxis(MovedShape(c), GufuncChunks(c)))

\* block b of array x chunked by chunks
InBlock(x, chunks, b) ==
  LET n == Len(x.shape)
      lo == [i \in 1..n |-> (b[i] - 1) * chunks[i] + 1]
      hi == [i \in 1..n |-> Min(b[i] * chunks[i], x.shape[i])]
      shp == [i \in 1..n |-> hi[i] - lo[i] + 1]
  IN  [shape |-> shp,
       data |-> [ix \in Idx(shp) |-> x.data[[i \in 1..n |-> ix[i] + lo[i] - 1]]]]

\* the output array stitched from the output blocks: along a loop dimension
\* an output block lies where its input block lies; a core dimension of the
\* output is whole in every block
StitchedFirstBlockOnly(c, blocks) ==
  LET b1 == [i \in 1..Len(MovedDims(c)) |-> 1]
  IN  blocks[b1]

Stitched(c, blocks) ==
  LET nl == Len(LoopDims(c))
      ch == GufuncChunks(c)
      b1 == [i \in 1..Len(MovedDims(c)) |-> 1]
      shp == [i \in 1..Len(OutDims(c)) |->
                IF i <= nl THEN MovedShape(c)[i] ELSE blocks[b1].shape[i]]
      blk(ox) == [i \in 1..Len(MovedDims(c)) |->
                    IF i <= nl THEN CeilDiv(ox[i], ch[i]) ELSE 1]
      loc(ox) == [i \in 1..Len(ox) |->
                    IF i <= nl THEN ox[i] - (blk(ox)[i] - 1) * ch[i] ELSE ox[i]]
  IN  [shape |-> shp,
       data |-> [ox \in Idx(shp) |-> blocks[blk(ox)].data[loc(ox)]]]

(***************************************************************************)
(* The state: the call of the running cell (call), where it stands (pc),   *)
(* the error it raised (err), every call of the user function so far, as   *)
(* the wrappers print it (calls), the blocks still to run (pending), the   *)
(* output blocks made (outBlocks), the Xarray object returned (result) and, *)
(* when the function returns several arrays, the further objects returned  *)
(* (others).                                                               *)
(***************************************************************************)
NoResult ==
  [dims |-> <<>>, sizes |-> <<>>, coords |-> {}, lazy |-> FALSE, data |-> <<>>]

\* what func received: the type and shape of the array, its chunks when it
\* is a dask array, the block it is, and the scalar passed beside it
Received(c, kind, a, chunks, b) ==
  [kind |-> kind, shape |-> a.shape, chunks |-> chunks, blk |-> b,
   scalar |-> IF c.func \in {"squared_error", "wrapper"} THEN <<1>> ELSE <<>>]

\* apply_ufunc wraps the output array with Xarray metadata
Wrap(c, out) ==
  [dims |-> OutDims(c), sizes |-> out.shape, coords |-> OutCoords(c),
   lazy |-> FALSE, data |-> out.data]

\* a dask-backed result: metadata only, no values yet
WrapLazy(c) ==
  [dims |-> OutDims(c), sizes |-> LazySizes(c), coords |-> OutCoords(c),
   lazy |-> TRUE, data |-> <<>>]

Init ==
  /\ seed \in Seeds
  /\ pc = "idle"
  /\ call = NoCall
  /\ err = "none"
  /\ calls = EmptyBag
  /\ pending = {}
  /\ outBlocks = <<>>
  /\ result = NoResult
  /\ others = <<>>

Raise(e) ==
  /\ pc' = "error"
  /\ err' = e
  /\ result' = NoResult
  /\ others' = <<>>

\* the call returns the objects rs, one per array the function returned
ReturnAll(rs) ==
  /\ pc' = IF rs[1].lazy THEN "lazy" ELSE "done"
  /\ err' = "none"
  /\ result' = rs[1]
  /\ others' = Tail(rs)

Return(r) == ReturnAll(<<r>>)

\* the arrays func returns for array a
Outputs(c, a) ==
  IF c.func = "minmax" THEN minmax(a) ELSE <<Apply(c, a)>>

\* in-memory input: func is called at once with the numpy array
ApplyEager(c) ==
  LET x == Moved(c, seed)
  IN  /\ calls' = calls (+) SetToBag({Received(c, "numpy", x, <<>>, <<>>)})
      /\ IF Raises(c, x) THEN Raise("func_raised")
         ELSE LET outs == Outputs(c, x)
              IN  IF \E k \in 1..NumOutputs(c) : SizeChanged(c, outs[k].shape)
                  THEN Raise("size_changed")
                  ELSE ReturnAll([k \in 1..NumOutputs(c) |-> Wrap(c, outs[k])])

ApplyAllowedComputes(c) == ApplyEager(c)

\* dask="allowed": the dask array is passed directly on to func
ApplyAllowed(c) ==
  /\ calls' = calls (+) SetToBag({Received(c, "dask", Moved(c, seed),
                                          MovedChunks(c), <<>>)})
  /\ Return(WrapLazy(c))

ApplyParallelizedEager(c) == ApplyEager(c)

\* dask="parallelized": apply_ufunc validates the call and hands func to
\* dask.array.apply_gufunc, which infers the output from dummy inputs when
\* it is not described; no block is computed
ApplyParallelized(c) ==
  IF Validation(c) # {}
  THEN /\ \E e \in Validation(c) : Raise(e)
       /\ calls' = calls
  ELSE IF NeedsDummy(c)
  THEN /\ calls' = calls (+) SetToBag({Received(c, "dummy", DummyInput(c),
                                              <<>>, <<>>)})
       /\ IF DummyRaises(c) THEN Raise("need_output_dtypes")
          ELSE Return(WrapLazy(c))
  ELSE /\ calls' = calls
       /\ Return(WrapLazy(c))

\* one cell: xr.apply_ufunc(func, ..., **options)
ApplyUfunc(c) ==
  /\ pc = "idle"
  /\ call' = c
  /\ UNCHANGED <<seed, pending, outBlocks>>
  /\ IF ~IsDask(c) THEN ApplyEager(c)
     ELSE IF Forbidden(c) THEN Raise("dask_forbidden") /\ calls' = calls
     ELSE IF c.dask = "allowed" THEN ApplyAllowed(c)
     ELSE ApplyParallelized(c)

\* result.compute(): a result of dask="allowed" is computed by dask's own
\* operations; a result of dask="parallelized" becomes one task per block
ComputeAtOnce ==
  /\ pc = "lazy"
  /\ UNCHANGED <<seed, call, calls, outBlocks, pending>>
  /\ IF Raises(call, Moved(call, seed))
     THEN Raise("func_raised")
     ELSE Return(Wrap(call, Apply(call, Moved(call, seed))))

Compute ==
  /\ pc = "lazy"
  /\ UNCHANGED <<seed, call, err, calls, outBlocks>>
  /\ IF call.dask = "allowed"
     THEN /\ Return(Wrap(call, Apply(call, Moved(call, seed))))
          /\ pending' = pending
     ELSE /\ pc' = "computing"
          /\ pending' = BlockIds(call)
          /\ UNCHANGED <<result, others>>

\* the calls made for block b, holding array x: the call of the function
\* handed to apply_gufunc on the block and, when that function is
\* vectorized, the calls of func it makes, one per point of the loop
\* dimensions of the block, each on a 1D vector
BlockLog(c, x, b) ==
  LET first == [i \in 1..(Len(x.shape) - 1) |-> 1]
  IN  SetToBag({Received(c, "block", x, <<>>, b)})
        (+) (IF c.vectorize
             THEN [r \in {Received(c, "vector", Vector(x, first), <<>>, b)} |->
                     Prod(Front(x.shape))]
             ELSE EmptyBag)

\* a worker runs the task of block b: func is called on the block and
\* returns one block of the output
RunBlockSeesOthers(b) ==
  /\ pc = "computing"
  /\ b \in pending
  /\ LET x == InBlock(Moved(call, seed), GufuncChunks(call), b)
         n == Cardinality(DOMAIN outBlocks)
     IN  /\ calls' = calls (+) BlockLog(call, x, b)
         /\ IF Raises(call, x)
            THEN /\ Raise("func_raised")
                 /\ UNCHANGED <<pending, outBlocks>>
            ELSE LET y == Apply(call, x)
                     z == [shape |-> y.shape,
                           data |-> [ix \in DOMAIN y.data |-> y.data[ix] + n]]
                 IN  /\ pending' = pending \ {b}
                     /\ outBlocks' = (b :> z) @@ outBlocks
                     /\ UNCHANGED <<pc, err, result, others>>
  /\ UNCHANGED <<seed, call>>

RunBlock(b) ==
  /\ pc = "computing"
  /\ b \in pending
  /\ LET x == InBlock(Moved(call, seed), GufuncChunks(call), b)
     IN  /\ calls' = calls (+) BlockLog(call, x, b)
         /\ IF Raises(call, x)
            THEN /\ Raise("func_raised")
                 /\ UNCHANGED <<pending, outBlocks>>
            ELSE /\ pending' = pending \ {b}
                 /\ outBlocks' = (b :> Apply(call, x)) @@ outBlocks
                 /\ UNCHANGED <<pc, err, result, others>>
  /\ UNCHANGED <<seed, call>>

\* dask stitches the output blocks; apply_ufunc wraps the output array
Stitch ==
  /\ pc = "computing"
  /\ pending = {}
  /\ Return(Wrap(call, Stitched(call, outBlocks)))
  /\ UNCHANGED <<seed, call, calls, pending, outBlocks>>

\* the next cell starts from a clean slate
NextCell ==
  /\ pc \in {"lazy", "done", "error"}
  /\ pc' = "idle"
  /\ call' = NoCall
  /\ err' = "none"
  /\ calls' = EmptyBag
  /\ pending' = {}
  /\ outBlocks' = <<>>
  /\ result' = NoResult
  /\ others' = <<>>
  /\ UNCHANGED seed

\* the cell that runs next makes one of the calls
RunCell ==
  /\ pc = "idle"
  /\ \E c \in Calls : ApplyUfunc(c)

Next ==
  \/ RunCell
  \/ Compute
  \/ \E b \in pending : RunBlock(b)
  \/ Stitch
  \/ NextCell

Spec == Init /\ [][Next]_vars

(***************************************************************************)
(* Properties                                                              *)
(***************************************************************************)
Returned == pc \in {"lazy", "computing", "done"}

OnDask == pc # "idle" /\ IsDask(call)

Parallelized == OnDask /\ call.dask = "parallelized"

BlockCalls == {r \in BagToSet(calls) : r.kind = "block"}

\* C1: with no dask keyword (the default, "forbidden") a call on a dask
\* array raises, the user function is never called and nothing is returned;
\* the function is called on, or a result returned for, a dask input only
\* when dask="allowed" or dask="parallelized" was passed explicitly.
C1_ForbiddenByDefault ==
  /\ (OnDask /\ "dask" \notin call.given) =>
       (pc = "error" /\ err = "dask_forbidden" /\ calls = EmptyBag
          /\ result = NoResult)
  /\ (OnDask /\ call.dask = "forbidden") =>
       (pc = "error" /\ err = "dask_forbidden" /\ calls = EmptyBag)
  /\ (OnDask /\ (calls # EmptyBag \/ Returned)) =>
       ("dask" \in call.given /\ call.dask \in {"allowed", "parallelized"})

C1_Witness ==
  /\ pc = "error" /\ err = "dask_forbidden"
  /\ call.func = "squared_error" /\ "dask" \notin call.given
  /\ NumBlocks(AirShape, call.chunks) > 1

C3_ParallelizedIsLazy ==
  Parallelized =>
    /\ pc = "lazy" =>
         /\ result.lazy /\ result.data = <<>>
         /\ outBlocks = <<>> /\ pending = {}
         /\ \A r \in BagToSet(calls) : r.kind = "dummy"
    /\ pc = "error" /\ BlockCalls = {} => result = NoResult
    /\ BlockCalls # {} => pc \in {"computing", "done", "error"}
    /\ pc = "done" => BlockCalls # {} /\ ~result.lazy

C3_Witness ==
  /\ pc = "lazy" /\ Parallelized /\ call.func = "integrate_wrapper"
  /\ call.input_core_dims = <<"lon">>
  /\ BagCardinality(calls) = 1
  /\ NumBlocks(AirShape, call.chunks) > 1

\* C4: when compute() has finished, the user function was called once for
\* each block of the input array: each block once, as many block calls as
\* the array has blocks; for shape (2920, 25, 53) in chunks of 100 along
\* time that number is 30.
C4_OneCallPerBlock ==
  /\ NumBlocks(<<AirTime, AirLat, AirLon>>, <<TimeChunk, -1, -1>>) = AirNumBlocks
  /\ (Parallelized /\ pc = "done" /\ ChunkedCoreDims(call) = {}) =>
       /\ \A r \in BlockCalls : CopiesIn(r, calls) = 1
       /\ Cardinality(BlockCalls) = NumBlocks(AirShape, call.chunks)
       /\ {r.blk : r \in BlockCalls}
            = Idx(NumBlocksPerAxis(MovedShape(call), MovedChunks(call)))

C4_Witness ==
  /\ pc = "done" /\ Parallelized /\ call.func = "integrate_wrapper"
  /\ call.input_core_dims = <<"lon">>
  /\ call.chunks = <<2, -1, -1>>
  /\ Cardinality(BlockCalls) = 2

\* C5: for a parallelized call whose core dimensions are each one chunk,
\* every output block is the function applied to the one input block with
\* the same index, and the stitched result equals the function applied once
\* to the whole unchunked array, whatever the chunks of the loop dimensions.
C5_BlockwiseEqualsWhole ==
  (Parallelized /\ ChunkedCoreDims(call) = {}) =>
    /\ \A b \in DOMAIN outBlocks :
         outBlocks[b] = Apply(call, InBlock(Moved(call, seed), MovedChunks(call), b))
    /\ pc = "done" =>
         /\ DOMAIN outBlocks
              = Idx(NumBlocksPerAxis(MovedShape(call), MovedChunks(call)))
         /\ result.sizes = Apply(call, Moved(call, seed)).shape
         /\ result.data = Apply(call, Moved(call, seed)).data

C5_Witness ==
  /\ pc = "done" /\ Parallelized /\ call.func = "trapz"
  /\ call.input_core_dims = <<"lon">>
  /\ ChunkedCoreDims(call) = {}
  /\ Cardinality(DOMAIN outBlocks) = MaxBlocks

\* C6: a parallelized call whose input has more than one chunk along a core
\* dimension raises the quoted ValueError, calls nothing and returns
\* nothing, unless allow_rechunk=True is passed; a parallelized call that
\* returned had every core dimension in one chunk, or allow_rechunk=True.
C6_ChunkedCoreDimRaises ==
  Parallelized =>
    /\ (ChunkedCoreDims(call) # {} /\ ~call.allow_rechunk) =>
         (pc = "error" /\ err = "core_dim_chunked" /\ result = NoResult
            /\ calls = EmptyBag /\ outBlocks = <<>>)
    /\ (ChunkedCoreDims(call) # {} /\ call.allow_rechunk) => err # "core_dim_chunked"
    /\ Returned => (ChunkedCoreDims(call) = {} \/ call.allow_rechunk)

C6_Witness ==
  /\ pc = "error" /\ err = "core_dim_chunked" /\ Parallelized
  /\ call.func = "trapz" /\ call.input_core_dims = <<"lon">>
  /\ "lon" \in ChunkedCoreDims(call)

\* C7: a parallelized call that names the new output core dimension newdim
\* raises when output_sizes does not give its size; with output_sizes
\* {"newdim": 1} it returns, and newdim is the last dimension of the result
\* with exactly the declared size, before and after compute().
C7_NewDimNeedsOutputSize ==
  (Parallelized /\ "newdim" \in Range(call.output_core_dims)) =>
    /\ ~HasOutputSize(call, "newdim") =>
         (pc = "error" /\ err = "missing_output_sizes" /\ result = NoResult)
    /\ HasOutputSize(call, "newdim") =>
         /\ Returned
         /\ result.dims = AirDims \o <<"newdim">>
         /\ Last(result.sizes) = OutputSize(call, "newdim")
         /\ Front(result.sizes) = AirShape

C7_Witness ==
  /\ pc = "done" /\ Parallelized /\ call.func = "add_new_dim"
  /\ HasOutputSize(call, "newdim")
  /\ call.chunks = <<2, -1, 1>>
  /\ result.sizes = <<NTime, NLat, NLon, 1>>

\* C8: an in-memory call whose function returns, along a dimension that is
\* both an input and an output core dimension, a size other than the
\* input's raises unless the dimension is in exclude_dims; in every result
\* returned, a dimension of the input that is not excluded has its input
\* size.
C8_SizeChangeRaises ==
  /\ (pc # "idle" /\ ~IsDask(call) /\ call.func = "interp"
        /\ "lat" \in Range(call.input_core_dims)
        /\ "lat" \in Range(call.output_core_dims)
        /\ "lat" \notin call.exclude_dims) =>
       (NewLatLen # NLat /\ pc = "error" /\ err = "size_changed"
          /\ result = NoResult)
  /\ (pc = "done" /\ ~IsDask(call)) =>
       \A i \in 1..Len(result.dims) :
         (result.dims[i] \in Range(InputDims(call))
            /\ result.dims[i] \notin call.exclude_dims)
           => result.sizes[i] = InputSize(call, result.dims[i])

C8_Witness ==
  /\ pc = "error" /\ err = "size_changed" /\ call.func = "interp"
  /\ call.output_core_dims = <<"lat">> /\ call.exclude_dims = {}
  /\ BagCardinality(calls) = 1

\* C9: the in-memory np.interp call with "lat" as input and output core
\* dimension and exclude_dims={"lat"} succeeds: "lat" is not a loop
\* dimension, the result has no coordinate along "lat", and its only
\* dimension is "lat" with the size of newlat, not the input's; its values
\* are np.interp(newlat, lat, air).
C9_ExcludedDimChangesSize ==
  (pc # "idle" /\ ~IsDask(call) /\ call.func = "interp"
     /\ call.output_core_dims = <<"lat">> /\ call.exclude_dims = {"lat"}) =>
    /\ pc = "done" /\ err = "none"
    /\ "lat" \notin Range(LoopDims(call))
    /\ result.dims = <<"lat">>
    /\ result.sizes = <<NewLatLen>> /\ NewLatLen # NLat
    /\ "lat" \notin result.coords
    /\ ~result.lazy
    /\ result.data = interp(newlat, lat, Air1D(seed)).data

C9_Witness ==
  /\ pc = "done" /\ ~IsDask(call) /\ call.func = "interp"
  /\ call.output_core_dims = <<"lat">> /\ call.exclude_dims = {"lat"}
  /\ result.sizes = <<NewLatLen>>

C10Call(c) ==
  /\ IsDask(c) /\ c.dask = "parallelized" /\ c.func = "interp"
  /\ c.exclude_dims = {"lat"} /\ HasOutputSize(c, "lat")
  /\ ChunkedCoreDims(c) = {}

\* C10: the parallelized np.interp call with exclude_dims and output_sizes
\* ends, when output_dtypes is not given, in the error that asks for
\* output_dtypes, and returns, when output_dtypes is given, a lazy result
\* without raising.
C10_OutputDtypesNeeded ==
  [][(pc = "idle" /\ C10Call(call')) =>
       IF call'.output_dtypes
       THEN pc' = "lazy" /\ err' = "none" /\ result'.lazy
              /\ result'.dims = <<"time", "lon", "lat">>
       ELSE pc' = "error" /\ err' = "need_output_dtypes" /\ result' = NoResult]_vars

C10_Witness ==
  /\ pc = "lazy" /\ C10Call(call) /\ call.output_dtypes
  /\ call.chunks = <<2, -1, -1>>

VectorCalls == {r \in BagToSet(calls) : r.kind = "vector"}

\* the values of air along lat at one time and one lon
LatColumn(s, t, lo) ==
  [shape |-> <<NLat>>,
   data |-> [k \in Idx(<<NLat>>) |-> AirValue(s, <<t, k[1], lo>>)]]

\* C14: in the parallelized np.interp call with vectorize=True, np.interp
\* only ever receives 1D vectors of the length of "lat"; for a block that
\* has run, the vectorized function was called once on the block and
\* np.interp once per point of the block's loop dimensions (time, lon), and
\* the one output block made has the block's loop shape with len(newlat)
\* values along its last axis.  The computed result has dimensions
\* (time, lon, lat), "lat" of size len(newlat), time and lon unchanged, and
\* at every (time, lon) the interpolation of that column of air.
C14_VectorizedBlocks ==
  (Parallelized /\ call.vectorize) =>
    LET in(b) == InBlock(Moved(call, seed), GufuncChunks(call), b)
    IN  /\ \A r \in VectorCalls :
             r.shape = <<NLat>> /\ r.blk \in DOMAIN outBlocks
        /\ \A b \in DOMAIN outBlocks :
             /\ \E r \in BlockCalls : r.blk = b /\ CopiesIn(r, calls) = 1
             /\ \E r \in VectorCalls :
                  r.blk = b /\ CopiesIn(r, calls) = Prod(Front(in(b).shape))
             /\ outBlocks[b].shape = Front(in(b).shape) \o <<NewLatLen>>
        /\ Cardinality(VectorCalls) = Cardinality(DOMAIN outBlocks)
        /\ Returned =>
             /\ result.dims = <<"time", "lon", "lat">>
             /\ result.sizes = <<NTime, NLon, NewLatLen>>
        /\ pc = "done" =>
             /\ BagCardinality(calls)
                  = NumBlocks(AirShape, call.chunks) + NTime * NLon
             /\ \A t \in 1..NTime, lo \in 1..NLon, j \in 1..NewLatLen :
                  result.data[<<t, lo, j>>]
                    = interp(newlat, lat, LatColumn(seed, t, lo)).data[<<j>>]

C14_Witness ==
  /\ pc = "done" /\ Parallelized /\ call.vectorize
  /\ call.chunks = <<2, -1, 1>>
  /\ Cardinality(BlockCalls) = 4
  /\ result.sizes = <<NTime, NLon, NewLatLen>>

DummyCalls == {r \in BagToSet(calls) : r.kind = "dummy"}

\* C11: the minmax call with output_core_dims=[[], []] returns exactly two
\* objects after one call of the function.  Each has every dimension of the
\* input but "lat", in the input's order and with the input's sizes and
\* coordinates: (lon) for air2d, (time, lon) for air3d.  The first holds the
\* minimum over "lat", the second the maximum.  A call that leaves the
\* number of entries of output_core_dims at its default returns one object.
C11_OneEntryPerReturnedArray ==
  /\ (pc # "idle" /\ call.func = "minmax") =>
       LET keep == IF call.input = "air2d" THEN <<"lon">> ELSE <<"time", "lon">>
           shp == IF call.input = "air2d" THEN <<NLon>> ELSE <<NTime, NLon>>
           at(ix, la) == IF call.input = "air2d" THEN <<1, la, ix[1]>>
                         ELSE <<ix[1], la, ix[2]>>
           vals(ix) == {AirValue(seed, at(ix, la)) : la \in 1..NLat}
       IN  /\ pc = "done" /\ err = "none"
           /\ BagCardinality(calls) = 1
           /\ \A r \in BagToSet(calls) : Last(r.shape) = NLat /\ Front(r.shape) = shp
           /\ Len(others) = 1
           /\ \A r \in {result, others[1]} :
                /\ r.dims = keep /\ r.sizes = shp /\ r.coords = Range(keep)
                /\ "lat" \notin Range(r.dims)
                /\ ~r.lazy
                /\ DOMAIN r.data = Idx(shp)
           /\ \A ix \in Idx(shp) :
                /\ result.data[ix] \in vals(ix)
                /\ others[1].data[ix] \in vals(ix)
                /\ \A v \in vals(ix) : result.data[ix] <= v /\ v <= others[1].data[ix]
  /\ (pc # "idle" /\ call.outputs = 1) => others = <<>>
  /\ Len(others) + 1 = call.outputs \/ pc \in {"idle", "error"}

C11_Witness ==
  /\ pc = "done" /\ call.func = "minmax" /\ call.input = "air3d"
  /\ Len(others) = 1
  /\ result.dims = <<"time", "lon">> /\ others[1].dims = <<"time", "lon">>
  /\ \E ix \in Idx(<<NTime, NLon>>) : result.data[ix] < others[1].data[ix]

C13_ComputeOrder ==
  [][Parallelized =>
       /\ (pc = "lazy" /\ pc' \notin {"lazy", "idle"}) =>
            /\ pc' = "computing"
            /\ pending' = BlockIds(call)
            /\ outBlocks' = <<>>
            /\ calls' = calls
            /\ result' = result /\ result.lazy
       /\ (pc = "computing" /\ pc' = "computing") =>
            /\ Cardinality(BlockCalls') = Cardinality(BlockCalls) + 1
            /\ Cardinality(DOMAIN outBlocks') = Cardinality(DOMAIN outBlocks) + 1
            /\ Cardinality(pending') = Cardinality(pending) - 1
            /\ result' = result /\ result.lazy
       /\ (pc # "done" /\ pc' = "done") =>
            /\ pc = "computing"
            /\ pending = {}
            /\ DOMAIN outBlocks = BlockIds(call)
            /\ Cardinality(BlockCalls) = Cardinality(BlockIds(call))
            /\ calls' = calls /\ outBlocks' = outBlocks
            /\ result.lazy /\ ~result'.lazy
            /\ result'.sizes = Stitched(call, outBlocks).shape
            /\ result'.data = Stitched(call, outBlocks).data
            /\ result'.dims = OutDims(call)
            /\ result'.coords = OutCoords(call)
    ]_vars

C13_Witness ==
  /\ pc = "done" /\ Parallelized /\ call.func = "integrate_wrapper"
  /\ call.input_core_dims = <<"lon">>
  /\ Cardinality(BlockCalls) = MaxBlocks
  /\ ~result.lazy /\ result.dims = <<"time", "lat">>

\* C15: a parallelized call that returned without meta (and without
\* output_dtypes) has called the function exactly once with a dummy array of
\* size 1 along every dimension, shape (1, 1, 1), and this before any
\* compute(): at the lazy result it is the only call.  For the integration
\* the dummy call returns shape (1, 1), one dimension fewer, and the lazy
\* result has as many dimensions as the dummy output.  With meta the
\* function never receives a dummy input.
C15_DummyInputInfersOutput ==
  (Parallelized /\ Returned) =>
    /\ (~call.meta /\ ~call.output_dtypes) =>
         /\ Cardinality(DummyCalls) = 1
         /\ \A r \in DummyCalls :
              /\ r.shape = <<DummySize, DummySize, DummySize>>
              /\ r.chunks = <<>> /\ r.blk = <<>>
         /\ \A r \in DummyCalls : CopiesIn(r, calls) = 1
         /\ pc = "lazy" => BagToSet(calls) = DummyCalls
         /\ Len(result.dims)
              = Len(CallFunc(call.func,
                             Ones(<<DummySize, DummySize, DummySize>>),
                             newlat, lat).shape)
         /\ call.func \in {"trapz", "integrate_wrapper"} =>
              /\ trapz(Ones(<<DummySize, DummySize, DummySize>>)).shape
                   = <<DummySize, DummySize>>
              /\ Len(result.dims) = Len(AirDims) - 1
    /\ call.meta => DummyCalls = {}
    /\ (call.meta /\ pc = "lazy") => calls = EmptyBag

C15_Witness ==
  /\ pc = "lazy" /\ Parallelized /\ call.func = "integrate_wrapper"
  /\ call.input_core_dims = <<"lon">> /\ ~call.meta
  /\ \E r \in DummyCalls : r.shape = <<1, 1, 1>>
  /\ result.dims = <<"time", "lat">>

\* C16: the in-memory np.interp call that names "lat_interp", a dimension no
\* input has, as its output core dimension returns a result whose last (and
\* only) dimension is "lat_interp" with the size the function returned,
\* len(newlat); the input core dimension "lat" is gone, and with it its
\* coordinate.  In every result the output core dimensions are the last
\* dimensions, in the order given: add_new_dim on air gives (lat, newdim).
C16_NewOutputCoreDimLast ==
  /\ (pc # "idle" /\ ~IsDask(call) /\ call.func = "interp"
        /\ call.output_core_dims = <<"lat_interp">>) =>
       /\ pc = "done" /\ err = "none"
       /\ Last(result.dims) = "lat_interp"
       /\ "lat" \notin Range(result.dims)
       /\ Len(result.dims) = 1
       /\ result.sizes = <<NewLatLen>>
       /\ result.coords = {}
       /\ result.data = interp(newlat, lat, Air1D(seed)).data
  /\ (pc = "done" /\ ~IsDask(call) /\ call.func = "add_new_dim") =>
       /\ result.dims = <<"lat", "newdim">>
       /\ result.sizes = <<NLat, NewDimSize>>
       /\ \A ix \in Idx(<<NLat, NewDimSize>>) :
            result.data[ix] = Air1D(seed).data[<<ix[1]>>]
  /\ (Returned /\ call.output_core_dims # <<>>) =>
       LET n == Len(result.dims)
           k == Len(call.output_core_dims)
       IN  /\ k <= n
           /\ SubSeq(result.dims, n - k + 1, n) = call.output_core_dims
           /\ SubSeq(result.dims, 1, n - k) = LoopDims(call)

C16_Witness ==
  /\ pc = "done" /\ ~IsDask(call) /\ call.func = "interp"
  /\ call.output_core_dims = <<"lat_interp">> /\ call.exclude_dims = {}
  /\ result.dims = <<"lat_interp">> /\ result.sizes = <<NewLatLen>>

BlockOutput(c, s, b) == Apply(c, InBlock(Moved(c, s), GufuncChunks(c), b))

C17_AddNewDimAxisZero ==
  /\ (pc = "done" /\ ~IsDask(call) /\ call.func = "add_new_dim") =>
       /\ result.sizes = add_new_dim_axis0(Moved(call, seed)).shape
       /\ result.data = add_new_dim_axis0(Moved(call, seed)).data
  /\ (Parallelized /\ call.func = "add_new_dim") =>
       \A b \in DOMAIN outBlocks :
         outBlocks[b] = add_new_dim_axis0(InBlock(Moved(call, seed),
                                                  GufuncChunks(call), b))

C17_Witness ==
  /\ pc = "done" /\ ~IsDask(call) /\ call.func = "add_new_dim"
  /\ result.sizes = <<NLat, NewDimSize>>
  /\ result.sizes # <<NewDimSize, NLat>>
  /\ BagCardinality(calls) = 1

====
